---------------------------- MODULE Spec2Model ----------------------------
(***************************************************************************)
(* StochasticParrot: a webhook handler that turns a Gitea review request   *)
(* into an LLM generated review (src/main.go) and the configuration it     *)
(* reads (src/unnamed/part_002).                                           *)
(*                                                                         *)
(* Texts (the LLM completion, the JSON the decoder reads) are sequences of *)
(* lexemes: a lexeme is a record [k, v] whose kind k is "p" punctuation,   *)
(* "s" a string literal with content v, "n" a number literal, "w" one      *)
(* whitespace character, "f" the three backticks of a markdown fence and   *)
(* "x" a bare word.  The text a sequence stands for is the concatenation   *)
(* of its lexemes.  Go string values (a review body, a decision tag) are   *)
(* sequences of chunks, so that formatting is concatenation.               *)
(***************************************************************************)
EXTENDS Integers, Sequences, FiniteSets, TLC

(***************************************************************************)
(* Lexemes                                                                 *)
(***************************************************************************)
P(c) == [k |-> "p", v |-> c]
S(c) == [k |-> "s", v |-> c]
N(c) == [k |-> "n", v |-> c]
X(c) == [k |-> "x", v |-> c]
WS == [k |-> "w", v |-> " "]
NL == [k |-> "w", v |-> "\n"]
\* The fence lexeme: three backticks (regexp \x60\x60\x60).
Fence == [k |-> "f", v |-> "fence"]

LBrace == P("{")
RBrace == P("}")
LBrack == P("[")
RBrack == P("]")
Comma == P(",")
Colon == P(":")

\* Lower-casing of the words whose case the program folds.
Lower(s) ==
    CASE s = "BODY" -> "body"
      [] s = "Body" -> "body"
      [] s = "JSON" -> "json"
      [] s = "Json" -> "json"
      [] s = "EVENT" -> "event"
      [] s = "Comments" -> "comments"
      [] s = "PATH" -> "path"
      [] OTHER -> s

\* A Go string as a sequence of chunks; the empty string is the empty sequence.
Str(s) == IF s = "" THEN <<>> ELSE <<s>>

Max(a, b) == IF a >= b THEN a ELSE b

\* The element of a one-element set: The({F(x) : x \in {e}}) is F of the
\* value of e, as a local variable holds it.
The(set) == CHOOSE x \in set : TRUE

(***************************************************************************)
(* encoding/json: the syntax check and the value tree of a text            *)
(***************************************************************************)
JStr(s) == [ty |-> "str", s |-> s, items |-> <<>>]
JNum(s) == [ty |-> "num", s |-> s, items |-> <<>>]
JBool(s) == [ty |-> "bool", s |-> s, items |-> <<>>]
JNull == [ty |-> "null", s |-> "", items |-> <<>>]
JArr(items) == [ty |-> "arr", s |-> "", items |-> items]
\* The members of an object are records [key, val], in the order of the text.
JObj(members) == [ty |-> "obj", s |-> "", items |-> members]

ParseFail == [ok |-> FALSE, next |-> 0, val |-> JNull]
ParseOk(n, v) == [ok |-> TRUE, next |-> n, val |-> v]

\* The first position from i on that holds no whitespace (Len(t) + 1: none).
SkipWs(t, i) ==
    LET rest == {j \in i..Len(t) : t[j].k # "w"}
    IN  IF rest = {} THEN Max(i, Len(t) + 1)
        ELSE CHOOSE j \in rest : \A m \in rest : j <= m

RECURSIVE ParseValue(_, _), ParseMembers(_, _, _), ParseElements(_, _, _)

\* One JSON value starting at or after position i.
ParseValue(t, i) ==
    LET j == SkipWs(t, i)
    IN  IF j > Len(t) THEN ParseFail
        ELSE LET c == t[j]
             IN  CASE c.k = "s" -> ParseOk(j + 1, JStr(c.v))
                   [] c.k = "n" -> ParseOk(j + 1, JNum(c.v))
                   [] c.k = "x" /\ c.v = "null" -> ParseOk(j + 1, JNull)
                   [] c.k = "x" /\ c.v \in {"true", "false"} ->
                        ParseOk(j + 1, JBool(c.v))
                   [] c = LBrace ->
                        LET m == SkipWs(t, j + 1)
                        IN  IF m <= Len(t) /\ t[m] = RBrace
                            THEN ParseOk(m + 1, JObj(<<>>))
                            ELSE ParseMembers(t, m, <<>>)
                   [] c = LBrack ->
                        LET m == SkipWs(t, j + 1)
                        IN  IF m <= Len(t) /\ t[m] = RBrack
                            THEN ParseOk(m + 1, JArr(<<>>))
                            ELSE ParseElements(t, m, <<>>)
                   [] OTHER -> ParseFail

\* The members of an object, a key expected at position i.
ParseMembers(t, i, acc) ==
    IF i > Len(t) \/ t[i].k # "s" THEN ParseFail
    ELSE LET c == SkipWs(t, i + 1)
         IN  IF c > Len(t) \/ t[c] # Colon THEN ParseFail
             ELSE LET r == ParseValue(t, c + 1)
                  IN  IF ~r.ok THEN ParseFail
                      ELSE LET e == SkipWs(t, r.next)
                               acc2 == Append(acc, [key |-> t[i].v, val |-> r.val])
                           IN  IF e > Len(t) THEN ParseFail
                               ELSE IF t[e] = RBrace THEN ParseOk(e + 1, JObj(acc2))
                               ELSE IF t[e] = Comma
                                    THEN ParseMembers(t, SkipWs(t, e + 1), acc2)
                               ELSE ParseFail

\* The elements of an array, a value expected at position i.
ParseElements(t, i, acc) ==
    LET r == ParseValue(t, i)
    IN  IF ~r.ok THEN ParseFail
        ELSE LET e == SkipWs(t, r.next)
                 acc2 == Append(acc, r.val)
             IN  IF e > Len(t) THEN ParseFail
                 ELSE IF t[e] = RBrack THEN ParseOk(e + 1, JArr(acc2))
                 ELSE IF t[e] = Comma THEN ParseElements(t, e + 1, acc2)
                 ELSE ParseFail

\* json.Unmarshal checks the whole text first: one value, then only whitespace.
checkValid(t) ==
    LET r == ParseValue(t, 1)
    IN  r.ok /\ SkipWs(t, r.next) > Len(t)
(***************************************************************************)
(* encoding/json: decoding a value tree into the review structs            *)
(***************************************************************************)
\* GiteaReviewResponse and GiteaComment, with Go's zero values.
ZeroReview == [Body |-> <<>>, Comments |-> <<>>, ReviewState |-> <<>>]
ZeroComment ==
    [Body |-> <<>>, CommentPositionNew |-> 0, CommentPositionOld |-> 0,
     Path |-> <<>>]

\* A decoding step's result: the value, and whether a type error was saved.
R(v, err) == [v |-> v, err |-> err]

\* The integer literals of the model.
IsInt(s) == s \in {"0", "3", "7"}
NumVal(s) == CASE s = "0" -> 0 [] s = "3" -> 3 [] s = "7" -> 7 [] OTHER -> 0

\* A JSON value into a string field: null leaves it, a non-string is a type error.
DecodeString(val, cur) ==
    CASE val.ty = "str" -> R(Str(val.s), FALSE)
      [] val.ty = "null" -> R(cur, FALSE)
      [] OTHER -> R(cur, TRUE)

\* A JSON value into an int field.
DecodeInt(val, cur) ==
    CASE val.ty = "num" /\ IsInt(val.s) -> R(NumVal(val.s), FALSE)
      [] val.ty = "null" -> R(cur, FALSE)
      [] OTHER -> R(cur, TRUE)

RECURSIVE DecodeCommentFields(_, _, _)
\* The members of an object into a GiteaComment: keys match the json tags
\* case-insensitively, unknown keys are skipped, decoding goes on after an error.
DecodeCommentFields(ms, i, st) ==
    IF i > Len(ms) THEN st
    ELSE LET f == Lower(ms[i].key)
             val == ms[i].val
             c == st.v
             nxt ==
               CASE f = "body" ->
                      LET d == DecodeString(val, c.Body)
                      IN  R([c EXCEPT !.Body = d.v], d.err)
                 [] f = "path" ->
                      LET d == DecodeString(val, c.Path)
                      IN  R([c EXCEPT !.Path = d.v], d.err)
                 [] f = "new_position" ->
                      LET d == DecodeInt(val, c.CommentPositionNew)
                      IN  R([c EXCEPT !.CommentPositionNew = d.v], d.err)
                 [] f = "old_position" ->
                      LET d == DecodeInt(val, c.CommentPositionOld)
                      IN  R([c EXCEPT !.CommentPositionOld = d.v], d.err)
                 [] OTHER -> R(c, FALSE)
         IN  DecodeCommentFields(ms, i + 1, R(nxt.v, st.err \/ nxt.err))

DecodeComment(val, cur) ==
    CASE val.ty = "obj" -> DecodeCommentFields(val.items, 1, R(cur, FALSE))
      [] val.ty = "null" -> R(cur, FALSE)
      [] OTHER -> R(cur, TRUE)

RECURSIVE DecodeElements(_, _, _, _)
\* The elements of an array into []GiteaComment: element i decodes into the
\* slice's element i when it has one, into a zero element otherwise.
DecodeElements(items, i, cur, st) ==
    IF i > Len(items) THEN st
    ELSE LET base == IF i <= Len(cur) THEN cur[i] ELSE ZeroComment
             d == DecodeComment(items[i], base)
         IN  DecodeElements(items, i + 1, cur,
                            R(Append(st.v, d.v), st.err \/ d.err))

\* Variant: an empty array is refused for the comments.
DecodeComments_RejectsEmpty(val, cur) ==
    CASE val.ty = "arr" /\ val.items = <<>> -> R(cur, TRUE)
      [] val.ty = "arr" /\ val.items # <<>> ->
           DecodeElements(val.items, 1, cur, R(<<>>, FALSE))
      [] val.ty = "null" -> R(<<>>, FALSE)
      [] OTHER -> R(cur, TRUE)
DecodeComments(val, cur) ==
    CASE val.ty = "arr" -> DecodeElements(val.items, 1, cur, R(<<>>, FALSE))
      [] val.ty = "null" -> R(<<>>, FALSE)
      [] OTHER -> R(cur, TRUE)

RECURSIVE DecodeReviewFields(_, _, _)
DecodeReviewFields(ms, i, st) ==
    IF i > Len(ms) THEN st
    ELSE LET f == Lower(ms[i].key)
             val == ms[i].val
             c == st.v
             nxt ==
               CASE f = "body" ->
                      LET d == DecodeString(val, c.Body)
                      IN  R([c EXCEPT !.Body = d.v], d.err)
                 [] f = "event" ->
                      LET d == DecodeString(val, c.ReviewState)
                      IN  R([c EXCEPT !.ReviewState = d.v], d.err)
                 [] f = "comments" ->
                      LET d == DecodeComments(val, c.Comments)
                      IN  R([c EXCEPT !.Comments = d.v], d.err)
                 [] OTHER -> R(c, FALSE)
         IN  DecodeReviewFields(ms, i + 1, R(nxt.v, st.err \/ nxt.err))

\* The decoding of a checked value tree into dst.
DecodeReview(val, dst) ==
    CASE val.ty = "obj" -> DecodeReviewFields(val.items, 1, R(dst, FALSE))
      [] val.ty = "null" -> R(dst, FALSE)
      [] OTHER -> R(dst, TRUE)

UnmarshalResult(d) == [err |-> IF d.err THEN "type" ELSE "", v |-> d.v]

\* json.Unmarshal(text, &dst) for a GiteaReviewResponse dst: a syntax error
\* leaves dst alone; a type error is returned after the rest was decoded.
Unmarshal(t, dst) ==
    IF ~checkValid(t) THEN [err |-> "syntax", v |-> dst]
    ELSE The({UnmarshalResult(DecodeReview(p.val, dst)) : p \in {ParseValue(t, 1)}})

(***************************************************************************)
(* jsonRespRegex and the response normalizer                               *)
(***************************************************************************)
\* Variant: the first closing brace of the text, as a lazy [\w\W]*? finds it.
LastBrace_First(t) ==
    LET bs == {e \in 1..Len(t) : t[e] = RBrace}
    IN  IF bs = {} THEN 0 ELSE CHOOSE e \in bs : \A m \in bs : m >= e
LastBrace(t) ==
    LET bs == {e \in 1..Len(t) : t[e] = RBrace}
    IN  IF bs = {} THEN 0 ELSE CHOOSE e \in bs : \A m \in bs : m <= e

\* "body": at position k: the key body in any case ((?i)), then a colon.
BodyKeyAt(t, k) ==
    /\ k + 1 <= Len(t)
    /\ t[k].k = "s" /\ Lower(t[k].v) = "body"
    /\ t[k + 1] = Colon

\* {[\s]*"body": at position j.
AnchoredAt(t, j) ==
    /\ j <= Len(t)
    /\ t[j] = LBrace
    /\ BodyKeyAt(t, SkipWs(t, j + 1))

\* Variant: [\w\W]*? in place of [\w\W]*, the group closes at the first
\* closing brace after the key.
GroupAt_FirstBrace(t, j, e) ==
    IF AnchoredAt(t, j) /\ \E c \in SkipWs(t, j + 1) + 2..Len(t) : t[c] = RBrace
    THEN <<j, CHOOSE c \in SkipWs(t, j + 1) + 2..Len(t) :
                 /\ t[c] = RBrace
                 /\ \A d \in SkipWs(t, j + 1) + 2..c - 1 : t[d] # RBrace>>
    ELSE <<>>
\* ({[\s]*"body":[\w\W]*}) opening at j: [\w\W]* is greedy, so the group
\* closes at e, the last closing brace of the text.  <<>>: no match.
GroupAt(t, j, e) ==
    IF AnchoredAt(t, j) /\ e > SkipWs(t, j + 1) + 1 THEN <<j, e>> ELSE <<>>

\* [\s]*({[\s]*"body":[\w\W]*}) tried at position p.
RegexGroup(t, p) == GroupAt(t, SkipWs(t, p), LastBrace(t))

\* The places after the optional opening (?:^fence(?:json)?)? for a match
\* that starts at s, in the order the regexp engine prefers them.
RegexOpenings(t, s) ==
    IF s = 1 /\ Len(t) >= 1 /\ t[1] = Fence
    THEN IF Len(t) >= 2 /\ t[2].k = "x" /\ Lower(t[2].v) = "json"
         THEN <<3, 2, 1>>
         ELSE <<2, 1>>
    ELSE <<s>>

RECURSIVE FirstGroup(_, _)
\* The group of the first opening from which the rest of the pattern matches.
FirstGroup(t, ops) ==
    IF ops = <<>> THEN <<>>
    ELSE IF RegexGroup(t, Head(ops)) # <<>> THEN RegexGroup(t, Head(ops))
    ELSE FirstGroup(t, Tail(ops))

\* (?:[\s]*fence$)? after a group that closes at e: taken when the text ends
\* that way; w is the first position after e that is not whitespace.
TrailEnd(t, e, w) == IF w = Len(t) /\ t[w] = Fence THEN w ELSE e

\* The match with group g that starts at s:
\* <<first, last, group first, group last>>, or <<>>.
WholeMatch(t, s, g) ==
    IF g = <<>> THEN <<>>
    ELSE <<s, TrailEnd(t, g[2], SkipWs(t, g[2] + 1)), g[1], g[2]>>

RegexAt(t, s) == WholeMatch(t, s, FirstGroup(t, RegexOpenings(t, s)))

RECURSIVE LeftmostFrom(_, _)
\* The leftmost match that starts at s or later.
LeftmostFrom(t, s) ==
    IF s > Len(t) + 1 THEN <<>>
    ELSE IF RegexAt(t, s) # <<>> THEN RegexAt(t, s)
    ELSE LeftmostFrom(t, s + 1)

Submatches(t, m) ==
    IF m = <<>> THEN <<>>
    ELSE <<SubSeq(t, m[1], m[2]), SubSeq(t, m[3], m[4])>>

\* jsonRespRegex.FindStringSubmatch: the leftmost match, as <<whole, group 1>>,
\* or <<>> when the text has no match.
FindStringSubmatch(t) == Submatches(t, LeftmostFrom(t, 1))

\* What getReview returns: (*GiteaReviewResponse, error).
NilReview(e) == [isNil |-> TRUE, v |-> ZeroReview, err |-> e]
SomeReview(v) == [isNil |-> FALSE, v |-> v, err |-> ""]

\* Variant: a failed decoding hands back what it had decoded, with the error.
CleanupResult_KeepsPartial(u) ==
    IF u.err # ""
    THEN [isNil |-> FALSE, v |-> u.v, err |-> "failed to unmarshal cleaned json"]
    ELSE SomeReview(u.v)
\* The result for the decoding u of the extracted group.
CleanupResult(u) ==
    IF u.err # "" THEN NilReview("failed to unmarshal cleaned json")
    ELSE SomeReview(u.v)

\* The result for the submatches of the completion.
CleanupMatches(matches) ==
    IF Len(matches) < 2
    THEN NilReview("failed to extract json from LLM response")
    ELSE The({CleanupResult(u) : u \in {Unmarshal(matches[2], ZeroReview)}})

llmRespCleanup(resp) ==
    The({CleanupMatches(matches) : matches \in {FindStringSubmatch(resp)}})

\* Variant: the extraction runs whether or not the direct decoding succeeded.
DirectOrCleanup_AlwaysExtracts(content, u) == llmRespCleanup(content)
\* The end of getReview for the direct decoding u of the completion: the
\* decoded review, or the extraction fallback when the decoding failed.
DirectOrCleanup(content, u) ==
    IF u.err # "" THEN llmRespCleanup(content) ELSE SomeReview(u.v)

\* The end of getReview: the direct decode, then the extraction fallback.
normalize(content) ==
    The({DirectOrCleanup(content, u) : u \in {Unmarshal(content, ZeroReview)}})

(***************************************************************************)
(* Go strings that the program compares: sequences of characters           *)
(***************************************************************************)
UpperLetters ==
    <<"A", "B", "C", "D", "E", "F", "G", "H", "I", "J", "K", "L", "M",
      "N", "O", "P", "Q", "R", "S", "T", "U", "V", "W", "X", "Y", "Z">>
LowerLetters ==
    <<"a", "b", "c", "d", "e", "f", "g", "h", "i", "j", "k", "l", "m",
      "n", "o", "p", "q", "r", "s", "t", "u", "v", "w", "x", "y", "z">>

FoldChar(c) ==
    IF \E i \in 1..26 : UpperLetters[i] = c
    THEN LowerLetters[CHOOSE i \in 1..26 : UpperLetters[i] = c]
    ELSE c

\* strings.EqualFold on the letters of the model.
EqualFold(s, t) ==
    /\ Len(s) = Len(t)
    /\ \A i \in 1..Len(s) : FoldChar(s[i]) = FoldChar(t[i])

ReviewRequested ==
    <<"r", "e", "v", "i", "e", "w", "_",
      "r", "e", "q", "u", "e", "s", "t", "e", "d">>
Wildcard == <<"*">>

\* An optional value (a Go pointer, a JSON field that may be missing).
None == <<>>
Some(x) == <<x>>

(***************************************************************************)
(* ParrotConfig.loadConfig                                                 *)
(***************************************************************************)
\* cmp.Or on two pointers: the first that is not nil.
cmpOr(a, b) == IF a # None THEN a ELSE b

\* defaultTemperature
DefaultTemperature == "0.7"

\* Variant: the load without its check of the LLM token.
loadConfig_NoTokenCheck(file, env) ==
    LET GiteaToken == cmpOr(file.gitea_token, Some(env.GITEA_TOKEN))[1]
        LLMEndpoint == cmpOr(file.llm_endpoint, Some(env.LLM_ENDPOINT))[1]
        cfg == [GiteaToken |-> GiteaToken, LLMEndpoint |-> LLMEndpoint,
                LLMToken |-> cmpOr(file.llm_endpoint, Some(env.LLM_TOKEN))[1],
                GiteaUsername |-> cmpOr(file.gitea_username, Some(<<>>))[1],
                Temperature |-> cmpOr(file.temperature, Some(DefaultTemperature))[1]]
    IN  CASE GiteaToken = <<>> ->
               [err |-> "gitea_token must not be nil", cfg |-> cfg]
          [] LLMEndpoint = <<>> ->
               [err |-> "llm_endpoint must not be nil", cfg |-> cfg]
          [] OTHER -> [err |-> "", cfg |-> cfg]

\* file: the decoded YAML (each key None or Some(string)); env: the
\* environment (each variable a string, "" when unset).
loadConfig(file, env) ==
    LET GiteaToken == cmpOr(file.gitea_token, Some(env.GITEA_TOKEN))[1]
        LLMEndpoint == cmpOr(file.llm_endpoint, Some(env.LLM_ENDPOINT))[1]
        LLMToken == cmpOr(file.llm_endpoint, Some(env.LLM_TOKEN))[1]
        GiteaUsername == cmpOr(file.gitea_username, Some(<<>>))[1]
        Temperature == cmpOr(file.temperature, Some(DefaultTemperature))[1]
        cfg == [GiteaToken |-> GiteaToken, LLMEndpoint |-> LLMEndpoint,
                LLMToken |-> LLMToken, GiteaUsername |-> GiteaUsername,
                Temperature |-> Temperature]
    IN  CASE GiteaToken = <<>> ->
               [err |-> "gitea_token must not be nil", cfg |-> cfg]
          [] LLMEndpoint = <<>> ->
               [err |-> "llm_endpoint must not be nil", cfg |-> cfg]
          [] LLMToken = <<>> ->
               [err |-> "llm_token must not be nil", cfg |-> cfg]
          [] OTHER -> [err |-> "", cfg |-> cfg]

\* The configuration files and environments of the model.
ConfigFiles ==
    [gitea_token : {None, Some(<<"g">>)},
     llm_endpoint : {None, Some(<<"e">>)},
     llm_token : {None, Some(<<"l">>)},
     gitea_username : {None, Some(Wildcard), Some(<<"b", "o">>)},
     temperature : {None, Some("0.2")}]
Environments ==
    [GITEA_TOKEN : {<<>>, <<"x">>},
     LLM_ENDPOINT : {<<>>, <<"y">>},
     LLM_TOKEN : {<<>>, <<"z">>}]
(***************************************************************************)
(* Bounds of the model                                                     *)
(***************************************************************************)
\* The longest pull_request.requested_reviewers list of an event.
MaxReviewers == 2
\* The most members of a generated completion object.
MaxMembers == 3

(***************************************************************************)
(* The webhook request and GiteaWebhookPayload                             *)
(***************************************************************************)
EventUsernames == {<<>>, <<"B", "O">>, <<"a">>}
EventActions ==
    {ReviewRequested,
     <<"R", "e", "v", "i", "e", "w", "_",
       "R", "E", "Q", "U", "E", "S", "T", "E", "D">>,
     <<"o", "p", "e", "n", "e", "d">>}
GoodURL == "https://gitea.example/api/v1/repos/o/r"
\* A repository URL that net/url cannot parse (a bad escape).
BadURL == "%zz"

\* The reviewer lists of at most MaxReviewers different users.
ReviewerLists ==
    UNION {{l \in [1..m -> EventUsernames] :
              \A i, j \in 1..m : i # j => l[i] # l[j]} : m \in 0..MaxReviewers}

\* The JSON object of a webhook delivery; a field is None when the JSON
\* leaves it out.
Events ==
    [action : {None} \cup {Some(a) : a \in EventActions},
     requested_reviewers : {None} \cup {Some(l) : l \in ReviewerLists},
     requested_reviewer : {None} \cup {Some(u) : u \in EventUsernames},
     url : {GoodURL, BadURL}]

DummyEvent ==
    [action |-> None, requested_reviewers |-> None,
     requested_reviewer |-> None, url |-> GoodURL]

\* An HTTP request to /webhook: its method and what reading the body gives;
\* "stalled" is a body whose end the client never sends on a connection it
\* keeps open.
Requests ==
    {[method |-> "GET", body |-> "event", ev |-> DummyEvent],
     [method |-> "POST", body |-> "readerr", ev |-> DummyEvent],
     [method |-> "POST", body |-> "stalled", ev |-> DummyEvent],
     [method |-> "POST", body |-> "malformed", ev |-> DummyEvent]}
    \cup {[method |-> "POST", body |-> "event", ev |-> e] : e \in Events}

NoRequest == [method |-> "", body |-> "", ev |-> DummyEvent]

\* The requests of the runs in which two requests are handled at a time: a
\* GET, a POST whose body stalls, an event that is no review request, and
\* review requests that name "BO" in the list, "a" at the top level, and "BO"
\* with a URL that does not parse.
PairRequests ==
    {[method |-> "GET", body |-> "event", ev |-> DummyEvent],
     [method |-> "POST", body |-> "stalled", ev |-> DummyEvent],
     [method |-> "POST", body |-> "event",
      ev |-> [DummyEvent EXCEPT !.action = Some(<<"o", "p", "e", "n", "e", "d">>)]],
     [method |-> "POST", body |-> "event",
      ev |-> [DummyEvent EXCEPT !.action = Some(ReviewRequested),
                                !.requested_reviewers = Some(<<(<<"B", "O">>)>>)]],
     [method |-> "POST", body |-> "event",
      ev |-> [DummyEvent EXCEPT !.action = Some(ReviewRequested),
                                !.requested_reviewer = Some(<<"a">>)]],
     [method |-> "POST", body |-> "event",
      ev |-> [DummyEvent EXCEPT !.action = Some(ReviewRequested),
                                !.requested_reviewer = Some(<<"B", "O">>),
                                !.url = BadURL]]}

\* json.Unmarshal(body, &payload): a missing field keeps Go's zero value.
UnmarshalPayload(ev) ==
    [Action |-> IF ev.action = None THEN <<>> ELSE ev.action[1],
     PullRequest |->
        [RequestedReviewers |->
            IF ev.requested_reviewers = None THEN <<>>
            ELSE [i \in DOMAIN ev.requested_reviewers[1] |->
                     [Username |-> ev.requested_reviewers[1][i]]]],
     RequestedReviewer |->
        [Username |-> IF ev.requested_reviewer = None THEN <<>>
                      ELSE ev.requested_reviewer[1]],
     Repository |-> [URL |-> ev.url]]

ZeroPayload == UnmarshalPayload(DummyEvent)

(***************************************************************************)
(* The event filter of handleWebhook                                       *)
(***************************************************************************)
\* Variant: an event without an action also counts as a review request.
isReviewRequested_AbsentAction(payload) ==
    payload.Action = <<>> \/ EqualFold(payload.Action, ReviewRequested)
isReviewRequested(payload) == EqualFold(payload.Action, ReviewRequested)

\* Variant: only the list of the pull request is searched.
isOurUserRequested_ListOnly(payload, username) ==
    \E i \in DOMAIN payload.PullRequest.RequestedReviewers :
       EqualFold(payload.PullRequest.RequestedReviewers[i].Username, username)
isOurUserRequested(payload, username) ==
    \/ \E i \in DOMAIN payload.PullRequest.RequestedReviewers :
          EqualFold(payload.PullRequest.RequestedReviewers[i].Username, username)
    \/ EqualFold(payload.RequestedReviewer.Username, username)

(***************************************************************************)
(* The outbound calls: what the repository host and the LLM may answer     *)
(***************************************************************************)
\* http.NewRequest fails on a URL it cannot parse.
NewRequestOk(url) == url # BadURL

\* An answer: a transport error (a timeout, a refused connection), or a
\* status with a body; choices are the choices of an LLM answer that decodes.
NetErr == [neterr |-> TRUE, status |-> 0, body |-> "none", choices |-> <<>>]
Answers(statuses, bodies) ==
    {NetErr} \cup [neterr : {FALSE}, status : statuses, body : bodies,
                   choices : {<<>>}]

\* body: "json" decodes as GiteaPRDetails, "garbage" does not, "readerr" is
\* a body whose read fails.
MetaAnswers == Answers({200, 404}, {"json", "garbage", "readerr"})
DiffAnswers == Answers({200, 404}, {"diff", "readerr"})
PublishAnswers == Answers({200, 201, 500}, {"text"})

PRTitle == <<"Fix bug">>
PRDescription == <<"Fixes #1">>
PRDiff == <<"+line">>
NoDetails == [Title |-> <<>>, Description |-> <<>>, Diff |-> <<>>]

\* Completions the LLM may return as choices[0].message.content.
GoodCompletion ==
    <<LBrace, S("body"), Colon, S("ok"), Comma, S("comments"), Colon, LBrack,
      RBrack, Comma, S("event"), Colon, S("APPROVED"), RBrace>>
FencedCompletion ==
    <<Fence, X("json"), NL, LBrace, S("body"), Colon, S("needs work"), Comma,
      S("comments"), Colon, LBrack, LBrace, S("body"), Colon, S("nit"), Comma,
      S("new_position"), Colon, N("7"), Comma, S("path"), Colon, S("a.go"),
      RBrace, RBrack, Comma, S("event"), Colon, S("REQUEST_CHANGES"), RBrace,
      NL, Fence>>
EmptyBodyCompletion ==
    <<LBrace, S("body"), Colon, S(""), Comma, S("event"), Colon, S("LGTM"),
      RBrace>>
\* Two comments, in this order: one with both positions set, one with none;
\* and a decision that is none of the host's review states.
TwoSidedCompletion ==
    <<LBrace, S("body"), Colon, S("two"), Comma, S("comments"), Colon, LBrack,
      LBrace, S("body"), Colon, S("old"), Comma, S("old_position"), Colon,
      N("3"), Comma, S("new_position"), Colon, N("7"), Comma, S("path"), Colon,
      S("a.go"), RBrace, Comma,
      LBrace, S("body"), Colon, S("none"), Comma, S("path"), Colon, S("b.go"),
      RBrace, RBrack, Comma, S("event"), Colon, S("approve"), RBrace>>
ProseCompletion == <<X("Looks"), WS, X("fine"), WS, X("to"), WS, X("me")>>
TypeErrorCompletion == <<LBrace, S("body"), Colon, N("7"), RBrace>>
Completions ==
    {GoodCompletion, FencedCompletion, EmptyBodyCompletion, TwoSidedCompletion,
     ProseCompletion, TypeErrorCompletion}

\* The LLM's answers: body "json" decodes as LLMResponse with these choices.
LLMAnswers ==
    Answers({200, 500}, {"json", "garbage", "readerr"})
    \cup {[neterr |-> FALSE, status |-> 200, body |-> "json", choices |-> <<c>>] :
            c \in Completions}
    \cup {[neterr |-> FALSE, status |-> 200, body |-> "json",
           choices |-> <<ProseCompletion, GoodCompletion>>],
          [neterr |-> FALSE, status |-> 500, body |-> "json",
           choices |-> <<GoodCompletion>>]}

\* Variant: fetchPRMeta without its status check.
MetaFailed_IgnoresStatus(a) == a.neterr \/ a.body # "json"
\* fetchPRMeta gives up: client.Do, the status, io.ReadAll, json.Unmarshal.
MetaFailed(a) == a.neterr \/ a.status # 200 \/ a.body # "json"
\* Variant: fetchDiff takes what it could read of a body whose read failed.
DiffFailed_IgnoresReadError(a) == a.neterr \/ a.status # 200
\* Variant: fetchDiff without its status check.
DiffFailed_IgnoresStatus(a) == a.neterr \/ a.body # "diff"
\* fetchDiff gives up: client.Do, the status, io.ReadAll.
DiffFailed(a) == a.neterr \/ a.status # 200 \/ a.body # "diff"
\* Variant: getReview without its status check.
LLMFailed_IgnoresStatus(a) ==
    a.neterr \/ a.body # "json" \/ Len(a.choices) = 0
\* getReview gives up before it decodes the completion: client.Do, the
\* status, io.ReadAll, json.Unmarshal, no choices.
LLMFailed(a) ==
    a.neterr \/ a.status # 200 \/ a.body # "json" \/ Len(a.choices) = 0
\* Variant: postComment takes any 2xx status as success.
PublishFailed_Any2xx(a) == a.neterr \/ a.status < 200 \/ a.status > 299
\* postComment gives up: client.Do, the status.
PublishFailed(a) == a.neterr \/ a.status # 200

(***************************************************************************)
(* The completion texts of the normalizer runs                             *)
(***************************************************************************)
\* Members of a completion object: the keys of the review in several
\* spellings, with and without inline comments, and an unknown key.
MemberTexts ==
    {<<S("body"), Colon, S("ok")>>,
     <<S("BODY"), Colon, S("ok")>>,
     <<S("body"), WS, Colon, S("ok")>>,
     <<S("event"), Colon, S("APPROVED")>>,
     <<S("event"), Colon, N("7")>>,
     <<S("comments"), Colon, LBrack, RBrack>>,
     <<S("comments"), Colon, LBrack, LBrace, S("body"), Colon, S("nit"), Comma,
       S("path"), Colon, S("a.go"), Comma, S("new_position"), Colon, N("7"),
       RBrace, RBrack>>,
     <<S("comments"), Colon, LBrack, LBrace, S("path"), Colon, S("a.go"), Comma,
       S("old_position"), Colon, N("3"), RBrace, RBrack>>,
     <<S("extra"), Colon, N("0")>>}

\* The lists of at most MaxMembers different members.
MemberLists ==
    UNION {{l \in [1..n -> MemberTexts] :
              \A i, j \in 1..n : i # j => l[i] # l[j]} : n \in 0..MaxMembers}

RECURSIVE JoinMembers(_)
JoinMembers(l) ==
    IF Len(l) = 0 THEN <<>>
    ELSE IF Len(l) = 1 THEN l[1]
    ELSE l[1] \o <<Comma>> \o JoinMembers(Tail(l))

\* The JSON object texts: the members in braces, with or without a space
\* after the opening brace.
ObjectTexts ==
    {<<LBrace>> \o lead \o JoinMembers(l) \o <<RBrace>> :
        lead \in {<<>>, <<WS>>}, l \in MemberLists}

\* A review followed by prose that has a closing brace in it.
TrailingProseText == GoodCompletion \o <<WS, X("thanks"), WS, RBrace>>
\* A review after a line of prose, with no fence.
LeadingProseText == <<X("Review"), Colon, NL>> \o EmptyBodyCompletion

RawTexts ==
    ObjectTexts
    \cup {ProseCompletion, <<X("null")>>, FencedCompletion, TypeErrorCompletion,
          TrailingProseText, LeadingProseText}

\* The text inside a markdown fence tagged json.
FenceWrap(t) == <<Fence, X("json"), NL>> \o t \o <<NL, Fence>>

(***************************************************************************)
(* Prompt composition and the review banner                                *)
(***************************************************************************)
\* fmt.Sprintf for a format of literal chunks and %s verbs: verb i is
\* replaced by argument i.
RECURSIVE Sprintf(_, _)
Sprintf(format, args) ==
    IF format = <<>> THEN <<>>
    ELSE IF Head(format) = "%s"
         THEN (IF args = <<>> THEN <<"%!s(MISSING)">> ELSE Head(args))
              \o Sprintf(Tail(format), IF args = <<>> THEN <<>> ELSE Tail(args))
         ELSE <<Head(format)>> \o Sprintf(Tail(format), args)

\* defaultUserPrompt: the instructions, then the three delimited fields.
UserPromptFormat ==
    <<"instructions", "---BEGIN TITLE---", "%s", "---END TITLE---",
      "---BEGIN DESCRIPTION---", "%s", "---END DESCRIPTION---",
      "---BEGIN DIFF---", "%s", "---END DIFF---">>

\* defaultSystemPrompt
DefaultSystemPrompt == <<>>

\* The Schema string of getReview's LLMFormat, as the JSON value it spells.
ResponseSchema ==
    [body |-> "string",
     comments |-> <<[body |-> "string", new_position |-> 0, path |-> "string"]>>,
     event |-> "string"]

\* The LLMRequest that getReview builds around the user message.
NewLLMRequest(prPrompt) ==
    [Messages |-> <<[Role |-> "system", Content |-> DefaultSystemPrompt],
                    [Role |-> "user", Content |-> prPrompt]>>,
     Temperature |-> "0.7",
     MaxTokens |-> 2000,
     Format |-> [FormatType |-> "json_schema", Strict |-> TRUE,
                 Schema |-> ResponseSchema]]

\* The POST of getReview: the endpoint, the bearer credential, the body.
NewLLMPost(token, endpoint, prPrompt) ==
    [URL |-> endpoint,
     Authorization |-> <<"Bearer ">> \o token,
     Body |-> NewLLMRequest(prPrompt)]

BannerHeader == "## Automated Code Review"
BannerDisclaimer ==
    "*This review was automatically generated by the code review bot.*"
BannerFormat == <<BannerHeader, "%s", BannerDisclaimer>>

\* Variant: a decision that is not one of the host's review states is sent
\* as COMMENT, and a comment without a position is left out.
WrapBody_Validates(review) ==
    [Body |-> Sprintf(BannerFormat, <<review.Body>>),
     Comments |->
        SelectSeq(review.Comments,
                  LAMBDA c : c.CommentPositionNew # 0 \/ c.CommentPositionOld # 0),
     ReviewState |->
        IF review.ReviewState \in {<<"APPROVED">>, <<"REQUEST_CHANGES">>, <<"COMMENT">>}
        THEN review.ReviewState ELSE <<"COMMENT">>]
\* Variant: an empty body is published without the banner.
WrapBody_SkipsEmpty(review) ==
    IF review.Body = <<>> THEN review
    ELSE [review EXCEPT !.Body = Sprintf(BannerFormat, <<review.Body>>)]
\* postComment's first statement: the review with its body wrapped in the banner.
WrapBody(review) ==
    [review EXCEPT !.Body = Sprintf(BannerFormat, <<review.Body>>)]
(***************************************************************************)
(* State                                                                   *)
(***************************************************************************)
\* The webhook requests the model lets arrive; net/http runs one handler
\* goroutine for each.
Reqs == {1, 2}

VARIABLES
    config,     \* the package variable config, as main's config.Parse left it
    proc,       \* "serving", or "exited" after log.Fatal
    clients,    \* the requests that arrive in this run
    pc,         \* per request: where its handler is
    request,    \* per request: the HTTP request
    payload,    \* per request: the decoded GiteaWebhookPayload
    trace,      \* per request: the stages entered and outbound calls made
    prDetails,  \* per request: the GiteaPRDetails fetched
    prompt,     \* per request: the user message composed for the LLM
    llmReq,     \* per request: the POST sent to the LLM endpoint
    review,     \* per request: what getReview returned
    published,  \* per request: the review sent in the POST to the host
    answers,    \* per request: what its outbound calls returned, in order
    resp,       \* per request: the response written to the webhook caller
    raw,        \* normalizer runs: the completion text
    norm,       \* normalizer runs: normalize(raw)
    fencedNorm, \* normalizer runs: normalize of raw inside a json fence
    again,      \* normalizer runs: normalize(raw), run once more
    configFile, \* loader runs: the decoded configuration file
    environ     \* loader runs: the environment of the process

vars ==
    <<config, proc, clients, pc, request, payload, trace, prDetails, prompt,
      llmReq, review, published, answers, resp, raw, norm, fencedNorm, again,
      configFile, environ>>
normVars == <<raw, norm, fencedNorm, again>>
loadVars == <<configFile, environ>>

NoResponse == [status |-> 0, body |-> ""]
NotRun == [isNil |-> TRUE, v |-> ZeroReview, err |-> "not run"]

\* Variant: the message is written without the status code.
httpError_StatusOK(msg, code) == [status |-> 200, body |-> msg]
\* http.Error(w, msg, code)
httpError(msg, code) == [status |-> code, body |-> msg]

\* The handlers are idle and no request has arrived.
RequestsIdle ==
    /\ pc = [r \in Reqs |-> "idle"]
    /\ request = [r \in Reqs |-> NoRequest]
    /\ payload = [r \in Reqs |-> ZeroPayload]
    /\ trace = [r \in Reqs |-> <<>>]
    /\ prDetails = [r \in Reqs |-> NoDetails]
    /\ prompt = [r \in Reqs |-> <<>>]
    /\ llmReq = [r \in Reqs |-> None]
    /\ review = [r \in Reqs |-> NotRun]
    /\ published = [r \in Reqs |-> None]
    /\ answers = [r \in Reqs |-> <<>>]
    /\ resp = [r \in Reqs |-> NoResponse]

\* The process serves and no request has arrived.
HandlerInit == proc = "serving" /\ RequestsIdle

\* Outside the loader runs the file and the environment are not kept.
LoadIdle == configFile = None /\ environ = None

\* main: the process serves only when config.Parse succeeded.
ConfigInit ==
    \E file \in ConfigFiles, env \in Environments :
       /\ loadConfig(file, env).err = ""
       /\ config = loadConfig(file, env).cfg

NormIdle == raw = <<>> /\ norm = NotRun /\ fencedNorm = NotRun /\ again = NotRun

Init == ConfigInit /\ HandlerInit /\ clients = {1} /\ NormIdle /\ LoadIdle

\* Two requests are handled at a time, under a configuration that names the
\* user "bo" or "*".
PairInit ==
    /\ \E file \in ConfigFiles :
          /\ file.gitea_token # None /\ file.llm_endpoint # None
          /\ file.llm_token # None /\ file.gitea_username # None
          /\ config = loadConfig(file, [GITEA_TOKEN |-> <<>>, LLM_ENDPOINT |-> <<>>,
                                        LLM_TOKEN |-> <<>>]).cfg
    /\ HandlerInit
    /\ clients = Reqs
    /\ NormIdle
    /\ LoadIdle

\* The requests that may arrive in a run: every request when request 1 is
\* the only one handled, the pair requests in the other runs.
Arrivals == IF clients = {1} THEN Requests ELSE PairRequests

(***************************************************************************)
(* handleWebhook, one action for each stretch between two outbound calls   *)
(***************************************************************************)
\* The handler ends with this response.
Respond(r, rsp, events) ==
    /\ resp' = [resp EXCEPT ![r] = rsp]
    /\ trace' = [trace EXCEPT ![r] = trace[r] \o events]
    /\ pc' = [pc EXCEPT ![r] = "done"]

\* The handler makes an outbound call and waits for its answer.
Call(r, where, events) ==
    /\ trace' = [trace EXCEPT ![r] = trace[r] \o events]
    /\ pc' = [pc EXCEPT ![r] = where]
    /\ UNCHANGED resp

InternalError == httpError("Internal server error", 500)

\* Variant: an ignored action is acknowledged with a line of text.
IgnoredAction_Acknowledged == [status |-> 200, body |-> "Ignored"]
\* w.WriteHeader(http.StatusOK) and return: an ignored action, and a review
\* request that is not for the configured user.
IgnoredAction == [status |-> 200, body |-> ""]
\* Variant: a review request for somebody else is refused with 403.
NotRequested_Forbidden == [status |-> 403, body |-> ""]
NotRequested == [status |-> 200, body |-> ""]
\* w.WriteHeader(http.StatusOK) and the line written after it.
Processed == [status |-> 200, body |-> "Successfully processed PR"]

\* Variant: the answers of all requests are kept in one buffer.
Answered_Shared(r, a) == answers' = [o \in Reqs |-> Append(answers[o], a)]
\* The answer of an outbound call is in.
Answered(r, a) == answers' = [answers EXCEPT ![r] = Append(answers[r], a)]

\* handleWebhook's check of the required configuration fails: log.Fatal.
MissingConfiguration ==
    \/ config.GiteaToken = <<>>
    \/ config.LLMToken = <<>>
    \/ config.LLMEndpoint = <<>>

\* log.Fatal ends the process; the request gets no response.
Fatal(r) ==
    /\ proc' = "exited"
    /\ trace' = [trace EXCEPT ![r] = <<"filter:accept">>]
    /\ pc' = [pc EXCEPT ![r] = "killed"]
    /\ UNCHANGED resp

\* A request arrives: the method check, the body, the event filter, and
\* fetchPRMeta up to its GET.  io.ReadAll(r.Body) returns when the body has
\* ended or the connection has failed; the server is started without a read
\* timeout, so on a stalled body the handler stays in the read.
HandleWebhook(r) ==
    /\ proc = "serving"
    /\ r \in clients
    /\ pc[r] = "idle"
    /\ \E q \in Arrivals : \E pl \in {UnmarshalPayload(q.ev)} :
         /\ request' = [request EXCEPT ![r] = q]
         /\ IF q.method # "POST"
            THEN /\ Respond(r, httpError("Method not allowed", 405), <<>>)
                 /\ UNCHANGED <<payload, proc>>
            ELSE IF q.body = "stalled"
            THEN /\ Call(r, "body", <<>>)
                 /\ UNCHANGED <<payload, proc>>
            ELSE IF q.body # "event"
            THEN /\ Respond(r, httpError("Bad request", 400), <<>>)
                 /\ UNCHANGED <<payload, proc>>
            ELSE /\ payload' = [payload EXCEPT ![r] = pl]
                 /\ IF ~isReviewRequested(pl)
                    THEN /\ Respond(r, IgnoredAction, <<"filter:reject">>)
                         /\ UNCHANGED proc
                    ELSE IF /\ ~isOurUserRequested(pl, config.GiteaUsername)
                            /\ config.GiteaUsername # Wildcard
                    THEN /\ Respond(r, NotRequested, <<"filter:reject">>)
                         /\ UNCHANGED proc
                    ELSE IF MissingConfiguration
                    THEN Fatal(r)
                    ELSE IF ~NewRequestOk(pl.Repository.URL)
                    THEN /\ Respond(r, InternalError,
                                    <<"filter:accept", "fetchPRMeta", "meta:fail">>)
                         /\ UNCHANGED proc
                    ELSE /\ Call(r, "meta",
                                 <<"filter:accept", "fetchPRMeta", "GET meta">>)
                         /\ UNCHANGED proc
    /\ UNCHANGED <<config, clients, prDetails, prompt, llmReq, review, published,
                   answers>>
    /\ UNCHANGED normVars
    /\ UNCHANGED loadVars

\* The metadata GET returns: the rest of fetchPRMeta up to fetchDiff's GET.
MetaReturn(r) ==
    /\ proc = "serving"
    /\ pc[r] = "meta"
    /\ \E a \in MetaAnswers :
         /\ Answered(r, a)
         /\ IF MetaFailed(a)
            THEN /\ Respond(r, InternalError, <<"meta:fail">>)
                 /\ UNCHANGED prDetails
            ELSE /\ prDetails' = [prDetails EXCEPT ![r] =
                       [Title |-> PRTitle, Description |-> PRDescription,
                        Diff |-> <<>>]]
                 /\ Call(r, "diff", <<"meta:ok", "fetchDiff", "GET diff">>)
    /\ UNCHANGED <<config, proc, clients, request, payload, prompt, llmReq, review,
                   published>>
    /\ UNCHANGED normVars
    /\ UNCHANGED loadVars

\* The diff GET returns: the rest of fetchDiff and fetchPRMeta, then getReview
\* up to the LLM POST.
DiffReturn(r) ==
    /\ proc = "serving"
    /\ pc[r] = "diff"
    /\ \E a \in DiffAnswers :
         /\ Answered(r, a)
         /\ IF DiffFailed(a)
            THEN /\ Respond(r, InternalError, <<"diff:fail">>)
                 /\ UNCHANGED <<prDetails, prompt, llmReq>>
            ELSE /\ prDetails' = [prDetails EXCEPT ![r].Diff = PRDiff]
                 /\ prompt' = [prompt EXCEPT ![r] =
                       Sprintf(UserPromptFormat,
                               <<prDetails[r].Title, prDetails[r].Description,
                                 PRDiff>>)]
                 /\ llmReq' = [llmReq EXCEPT ![r] =
                       Some(NewLLMPost(config.LLMToken, config.LLMEndpoint,
                              Sprintf(UserPromptFormat,
                                      <<prDetails[r].Title,
                                        prDetails[r].Description, PRDiff>>)))]
                 /\ Call(r, "llm",
                         <<"diff:ok", "getReview", "compose", "POST llm">>)
    /\ UNCHANGED <<config, proc, clients, request, payload, review, published>>
    /\ UNCHANGED normVars
    /\ UNCHANGED loadVars

\* The LLM POST returns: the rest of getReview, then postComment up to its POST.
LLMReturn(r) ==
    /\ proc = "serving"
    /\ pc[r] = "llm"
    /\ \E a \in LLMAnswers :
         /\ Answered(r, a)
         /\ IF LLMFailed(a)
            THEN /\ Respond(r, InternalError, <<"llm:fail">>)
                 /\ review' = [review EXCEPT ![r] = NilReview("LLM call failed")]
                 /\ UNCHANGED published
            ELSE \E got \in {normalize(a.choices[1])} :
                    IF got.err # ""
                    THEN /\ Respond(r, InternalError,
                                    <<"llm:ok", "normalize:fail">>)
                         /\ review' = [review EXCEPT ![r] = got]
                         /\ UNCHANGED published
                    ELSE /\ review' = [review EXCEPT ![r] = got]
                         /\ published' =
                               [published EXCEPT ![r] = Some(WrapBody(got.v))]
                         /\ Call(r, "publish",
                                 <<"llm:ok", "normalize:ok", "postComment",
                                   "POST review">>)
    /\ UNCHANGED <<config, proc, clients, request, payload, prDetails, prompt,
                   llmReq>>
    /\ UNCHANGED normVars
    /\ UNCHANGED loadVars

\* Variant: after a failed publish the handler waits for a retry that is
\* never scheduled.
PublishReturn_WaitsForRetry(r) ==
    /\ proc = "serving"
    /\ pc[r] = "publish"
    /\ \E a \in PublishAnswers :
         /\ Answered(r, a)
         /\ IF PublishFailed(a)
            THEN Call(r, "retry", <<"publish:fail">>)
            ELSE Respond(r, Processed, <<"publish:ok">>)
    /\ UNCHANGED <<config, proc, clients, request, payload, prDetails, prompt,
                   llmReq, review, published>>
    /\ UNCHANGED <<raw, norm, fencedNorm, again, configFile, environ>>

\* The review POST returns: the rest of postComment and of handleWebhook.
PublishReturn(r) ==
    /\ proc = "serving"
    /\ pc[r] = "publish"
    /\ \E a \in PublishAnswers :
         /\ Answered(r, a)
         /\ IF PublishFailed(a)
            THEN Respond(r, InternalError, <<"publish:fail">>)
            ELSE Respond(r, Processed, <<"publish:ok">>)
    /\ UNCHANGED <<config, proc, clients, request, payload, prDetails, prompt,
                   llmReq, review, published>>
    /\ UNCHANGED normVars
    /\ UNCHANGED loadVars

Next ==
    \/ \E r \in Reqs : HandleWebhook(r)
    \/ \E r \in Reqs : MetaReturn(r)
    \/ \E r \in Reqs : DiffReturn(r)
    \/ \E r \in Reqs : LLMReturn(r)
    \/ \E r \in Reqs : PublishReturn(r)

Spec == Init /\ [][Next]_vars

SpecPair == PairInit /\ [][Next]_vars

\* Every outbound call returns: each http.Client has a Timeout (30 seconds
\* for the host, config.LLMTimeout seconds for the LLM), so client.Do ends
\* with a response or an error.  Nothing makes a request arrive or a body end.
SpecLive ==
    /\ PairInit
    /\ [][Next]_vars
    /\ \A r \in Reqs :
          /\ WF_vars(MetaReturn(r))
          /\ WF_vars(DiffReturn(r))
          /\ WF_vars(LLMReturn(r))
          /\ WF_vars(PublishReturn(r))

(***************************************************************************)
(* Loader runs: main from config.Parse on, for every file and environment  *)
(***************************************************************************)
\* The process has started and config.Parse has not run: the package
\* variable config has no field set.
ConfigLoadInit ==
    /\ configFile \in ConfigFiles
    /\ environ \in Environments
    /\ config = [GiteaToken |-> <<>>, LLMEndpoint |-> <<>>, LLMToken |-> <<>>,
                 GiteaUsername |-> <<>>, Temperature |-> ""]
    /\ proc = "starting"
    /\ RequestsIdle
    /\ clients = {2}
    /\ NormIdle

\* main: config.Parse, and the panic when it returns an error; the server
\* is registered only after a load without error.
Parse ==
    /\ proc = "starting"
    /\ \E l \in {loadConfig(configFile, environ)} :
          IF l.err # ""
          THEN proc' = "panicked" /\ UNCHANGED config
          ELSE proc' = "serving" /\ config' = l.cfg
    /\ UNCHANGED <<clients, pc, request, payload, trace, prDetails, prompt,
                   llmReq, review, published, answers, resp>>
    /\ UNCHANGED normVars
    /\ UNCHANGED loadVars

NextConfig == Parse \/ Next

SpecConfig == ConfigLoadInit /\ [][NextConfig]_vars

(***************************************************************************)
(* Normalizer runs: the end of getReview applied to a completion text, and *)
(* to the same text inside a json fence                                    *)
(***************************************************************************)
DefaultConfig ==
    loadConfig([gitea_token |-> Some(<<"g">>), llm_endpoint |-> Some(<<"e">>),
                llm_token |-> Some(<<"l">>), gitea_username |-> None,
                temperature |-> None],
               [GITEA_TOKEN |-> <<>>, LLM_ENDPOINT |-> <<>>, LLM_TOKEN |-> <<>>]).cfg

NormInit ==
    /\ config = DefaultConfig
    /\ HandlerInit
    /\ clients = {}
    /\ raw \in RawTexts
    /\ norm = NotRun
    /\ fencedNorm = NotRun
    /\ again = NotRun
    /\ LoadIdle

handlerVars ==
    <<config, proc, clients, pc, request, payload, trace, prDetails, prompt,
      llmReq, review, published, answers, resp, configFile, environ>>

Normalize ==
    /\ norm = NotRun
    /\ norm' = normalize(raw)
    /\ UNCHANGED <<raw, fencedNorm, again>>
    /\ UNCHANGED handlerVars

NormalizeFenced ==
    /\ fencedNorm = NotRun
    /\ fencedNorm' = normalize(FenceWrap(raw))
    /\ UNCHANGED <<raw, norm, again>>
    /\ UNCHANGED handlerVars

\* Variant: the result of the fenced run, once there is one, is kept in a
\* package variable and handed out for the next text.
NormalizeAgain_LastResult ==
    /\ norm # NotRun
    /\ again = NotRun
    /\ again' = IF fencedNorm # NotRun THEN fencedNorm ELSE normalize(raw)
    /\ UNCHANGED <<raw, norm, fencedNorm>>
    /\ UNCHANGED handlerVars

\* getReview's end runs once more on the text it has already normalized.
NormalizeAgain ==
    /\ norm # NotRun
    /\ again = NotRun
    /\ again' = normalize(raw)
    /\ UNCHANGED <<raw, norm, fencedNorm>>
    /\ UNCHANGED handlerVars

NextNorm == Normalize \/ NormalizeFenced \/ NormalizeAgain

SpecNorm == NormInit /\ [][NextNorm]_vars

(***************************************************************************)
(* What a request was and what was done for it                             *)
(***************************************************************************)
Range(f) == {f[i] : i \in DOMAIN f}

IsPrefix(a, b) == Len(a) <= Len(b) /\ a = SubSeq(b, 1, Len(a))

\* The handler of r has run at least its first stretch: it has been called
\* and is not held in the read of the body.
Handled(r) == pc[r] \notin {"idle", "body"}

\* r is a POST whose body is a JSON event.
IsEvent(r) == request[r].method = "POST" /\ request[r].body = "event"

\* The action the event carries; the empty string when it carries none.
EvAction(ev) == IF ev.action = None THEN <<>> ELSE ev.action[1]

\* Some username of pull_request.requested_reviewers equals u, letter case
\* aside.
ListNames(ev, u) ==
    /\ ev.requested_reviewers # None
    /\ \E i \in DOMAIN ev.requested_reviewers[1] :
          EqualFold(ev.requested_reviewers[1][i], u)

\* The event has a top-level requested_reviewer and it names u.
TopNames(ev, u) ==
    /\ ev.requested_reviewer # None
    /\ EqualFold(ev.requested_reviewer[1], u)

CallOrder == <<"GET meta", "GET diff", "POST llm", "POST review">>

\* The outbound calls made for a request, in the order they were made.
OutboundCalls(tr) == SelectSeq(tr, LAMBDA e : e \in Range(CallOrder))

StageOrder ==
    <<"filter", "meta", "diff", "compose", "llm", "normalize", "publish">>

\* The stage that an entry of the trace starts; "" for the other entries.
StageOf(e) ==
    CASE e \in {"filter:accept", "filter:reject"} -> "filter"
      [] e = "GET meta" -> "meta"
      [] e = "GET diff" -> "diff"
      [] e = "compose" -> "compose"
      [] e = "POST llm" -> "llm"
      [] e \in {"normalize:ok", "normalize:fail"} -> "normalize"
      [] e = "POST review" -> "publish"
      [] OTHER -> ""

\* The stages a request went through, in order.
StagesOf(tr) ==
    LET marked == SelectSeq(tr, LAMBDA e : StageOf(e) # "")
    IN  [i \in DOMAIN marked |-> StageOf(marked[i])]

\* The filter let the request through.
Accepted(r) == trace[r] # <<>> /\ trace[r][1] = "filter:accept"
\* The filter turned the request down.
Rejected(r) == trace[r] = <<"filter:reject">>

\* The completions that hold a review: a JSON object of the review's shape,
\* bare or in a fence.  The other two are prose and a body of the wrong type.
VerdictCompletions ==
    {GoodCompletion, FencedCompletion, EmptyBodyCompletion, TwoSidedCompletion}

\* Call number i of a request was answered a, and that is a success: no
\* transport error, status 200, a body that decodes; for the LLM call also a
\* choice whose content normalizes.
AnswerOk(i, a) ==
    /\ ~a.neterr
    /\ a.status = 200
    /\ CASE i = 1 -> a.body = "json"
         [] i = 2 -> a.body = "diff"
         [] i = 3 -> /\ a.body = "json"
                     /\ Len(a.choices) >= 1
                     /\ a.choices[1] \in VerdictCompletions
         [] OTHER -> TRUE

\* A stage after the filter failed for r.
StageFailed(r) ==
    \/ Accepted(r) /\ request[r].ev.url = BadURL
    \/ \E i \in DOMAIN answers[r] : ~AnswerOk(i, answers[r][i])

(***************************************************************************)
(* The event filter                                                        *)
(***************************************************************************)
\* C1: a POST event whose action is not "review_requested" (letter case
\* aside) is rejected and no outbound call is made for it, whatever the
\* reviewer fields and the configured username are.
C1_OtherActionRejected ==
    \A r \in Reqs :
       (/\ Handled(r)
        /\ IsEvent(r)
        /\ ~EqualFold(EvAction(request[r].ev), ReviewRequested))
       => /\ pc[r] = "done"
          /\ Rejected(r)
          /\ OutboundCalls(trace[r]) = <<>>
          /\ answers[r] = <<>>
          /\ published[r] = None

\* An "opened" event under the wildcard username was rejected.
C1_Witness ==
    \E r \in Reqs :
       /\ IsEvent(r)
       /\ config.GiteaUsername = Wildcard
       /\ request[r].ev.action = Some(<<"o", "p", "e", "n", "e", "d">>)
       /\ request[r].ev.requested_reviewer = Some(<<"B", "O">>)
       /\ pc[r] = "done"
       /\ Rejected(r)

\* C2: a review_requested event (any letter case) is accepted, that is the
\* handler goes on to fetchPRMeta, when the configured username is "*", or
\* names an entry of pull_request.requested_reviewers, or names the top-level
\* requested_reviewer; each of the three alone is enough.
C2_RequestedAccepted ==
    \A r \in Reqs :
       (/\ Handled(r)
        /\ IsEvent(r)
        /\ EqualFold(EvAction(request[r].ev), ReviewRequested)
        /\ \/ config.GiteaUsername = Wildcard
           \/ ListNames(request[r].ev, config.GiteaUsername)
           \/ TopNames(request[r].ev, config.GiteaUsername))
       => /\ pc[r] # "killed"
          /\ Len(trace[r]) >= 3
          /\ trace[r][1] = "filter:accept"
          /\ trace[r][2] = "fetchPRMeta"
          /\ request[r].ev.url = GoodURL => trace[r][3] = "GET meta"

\* An event in upper case letters whose list names somebody else and whose
\* top-level requested_reviewer alone names the configured user has reached
\* the metadata GET.
C2_Witness ==
    \E r \in Reqs :
       /\ IsEvent(r)
       /\ config.GiteaUsername = <<"b", "o">>
       /\ request[r].ev.action # Some(ReviewRequested)
       /\ request[r].ev.requested_reviewers = Some(<<(<<"a">>)>>)
       /\ request[r].ev.requested_reviewer = Some(<<"B", "O">>)
       /\ pc[r] = "meta"
       /\ OutboundCalls(trace[r]) = <<"GET meta">>

\* C3: a review_requested event is rejected, with no outbound call, when the
\* configured username is not "*" (the default empty username included), no
\* entry of pull_request.requested_reviewers names it, and the top-level
\* requested_reviewer is absent or names somebody else.
C3_NotRequestedRejected ==
    \A r \in Reqs :
       (/\ Handled(r)
        /\ IsEvent(r)
        /\ EqualFold(EvAction(request[r].ev), ReviewRequested)
        /\ config.GiteaUsername # Wildcard
        /\ ~ListNames(request[r].ev, config.GiteaUsername)
        /\ ~TopNames(request[r].ev, config.GiteaUsername))
       => /\ Rejected(r)
          /\ OutboundCalls(trace[r]) = <<>>

\* C4: both rejections of the filter (an action that is not review_requested;
\* a review request in which handleWebhook finds no match for a username
\* other than "*") answer the caller with 200, never with a 4xx or a 5xx.
C4_RejectionAnswers200 ==
    \A r \in Reqs :
       /\ (Handled(r) /\ Rejected(r)) => (pc[r] = "done" /\ resp[r].status = 200)
       /\ (/\ Handled(r)
           /\ IsEvent(r)
           /\ \/ ~EqualFold(payload[r].Action, ReviewRequested)
              \/ /\ config.GiteaUsername # Wildcard
                 /\ \A i \in DOMAIN payload[r].PullRequest.RequestedReviewers :
                       ~EqualFold(payload[r].PullRequest.RequestedReviewers[i].Username,
                                  config.GiteaUsername)
                 /\ ~EqualFold(payload[r].RequestedReviewer.Username,
                               config.GiteaUsername))
          => (Rejected(r) /\ resp[r].status = 200)

\* A review request for somebody else was rejected with 200.
C4_Witness ==
    \E r \in Reqs :
       /\ IsEvent(r)
       /\ request[r].ev.action = Some(ReviewRequested)
       /\ config.GiteaUsername = <<"b", "o">>
       /\ request[r].ev.requested_reviewers = Some(<<(<<"a">>)>>)
       /\ request[r].ev.requested_reviewer = Some(<<"a">>)
       /\ Rejected(r)
       /\ resp[r] = [status |-> 200, body |-> ""]

(***************************************************************************)
(* The pipeline after the filter                                           *)
(***************************************************************************)
\* C5: when a stage after the filter fails for an accepted event (metadata
\* fetch, diff fetch, LLM call, normalization or publish; a transport error,
\* a status other than 200, no choices, content that does not decode), the
\* handler ends with the answer 500 and nothing more is done for the request.
C5_FailureAnswers500 ==
    \A r \in Reqs :
       (Accepted(r) /\ StageFailed(r)) =>
          /\ pc[r] = "done"
          /\ resp[r].status = 500

\* The LLM answered 200 with prose that does not normalize: 500.
C5_Witness ==
    \E r \in Reqs :
       /\ Accepted(r)
       /\ Len(answers[r]) = 3
       /\ answers[r][3].status = 200
       /\ answers[r][3].choices = <<ProseCompletion>>
       /\ pc[r] = "done"
       /\ resp[r].status = 500

\* C6: an accepted event is answered 200 only when the review POST was made
\* and returned 200; a request that ends with 200 and no published review was
\* rejected by the filter.
C6_SuccessMeansPublished ==
    \A r \in Reqs :
       resp[r].status = 200 =>
          \/ Rejected(r) /\ ~Accepted(r)
          \/ /\ Accepted(r)
             /\ OutboundCalls(trace[r]) = CallOrder
             /\ Len(answers[r]) = 4
             /\ ~answers[r][4].neterr
             /\ answers[r][4].status = 200
             /\ published[r] # None

\* An accepted event was answered 200 after the review POST returned 200.
C6_Witness ==
    \E r \in Reqs :
       /\ Accepted(r)
       /\ resp[r].status = 200
       /\ Len(answers[r]) = 4
       /\ answers[r][4].status = 200

\* C7: the review POST is made only after the LLM call returned 200 with at
\* least one choice whose content normalized to a verdict; after an LLM answer
\* with another status, with no choices, or whose content does not normalize,
\* no review POST is made and the answer is 500.
C7_PublishOnlyAfterVerdict ==
    \A r \in Reqs :
       /\ "POST review" \in Range(trace[r]) =>
             /\ Len(answers[r]) >= 3
             /\ AnswerOk(3, answers[r][3])
             /\ ~review[r].isNil
             /\ review[r].err = ""
       /\ (Len(answers[r]) >= 3 /\ ~AnswerOk(3, answers[r][3])) =>
             /\ "POST review" \notin Range(trace[r])
             /\ published[r] = None
             /\ pc[r] = "done"
             /\ resp[r].status = 500

\* The LLM answered 500 with a well-formed completion: no review POST, 500.
C7_Witness ==
    \E r \in Reqs :
       /\ Len(answers[r]) = 3
       /\ answers[r][3].status = 500
       /\ answers[r][3].choices = <<GoodCompletion>>
       /\ "POST review" \notin Range(trace[r])
       /\ resp[r].status = 500

\* C8: the stages of a request run in the order filter, metadata fetch, diff
\* fetch, prompt composition, LLM call, normalization, publish; each outbound
\* call is made at most once; a call is made only after the calls before it
\* succeeded; after a failed call no further call is made.
C8_StagesInOrderOnce ==
    \A r \in Reqs :
       /\ IsPrefix(StagesOf(trace[r]), StageOrder)
       /\ IsPrefix(OutboundCalls(trace[r]), CallOrder)
       /\ Len(answers[r]) <= Len(OutboundCalls(trace[r]))
       /\ Len(OutboundCalls(trace[r])) <= Len(answers[r]) + 1
       /\ \A i \in DOMAIN answers[r] :
             IF AnswerOk(i, answers[r][i])
             THEN i < 4 => Len(OutboundCalls(trace[r])) >= i + 1
             ELSE /\ Len(OutboundCalls(trace[r])) = i
                  /\ Len(answers[r]) = i
                  /\ pc[r] = "done"

\* A request went through all the stages and made the four calls.
C8_Witness ==
    \E r \in Reqs :
       /\ StagesOf(trace[r]) = StageOrder
       /\ OutboundCalls(trace[r]) = CallOrder
       /\ pc[r] = "done"

\* C9: the body of every published review is the normalized body with the
\* header "## Automated Code Review" before it and the disclaimer after it,
\* once, whatever the decision tag and the body (an empty one included).
C9_BodyWrappedInBanner ==
    \A r \in Reqs :
       /\ "POST review" \in Range(trace[r]) => published[r] # None
       /\ published[r] # None =>
             /\ review[r].err = ""
             /\ published[r][1].Body =
                   <<BannerHeader>> \o review[r].v.Body \o <<BannerDisclaimer>>
             /\ published[r][1].ReviewState = review[r].v.ReviewState
             /\ published[r][1].Comments = review[r].v.Comments

\* A verdict with an empty body and the tag LGTM was published in the banner.
C9_Witness ==
    \E r \in Reqs :
       /\ "POST review" \in Range(trace[r])
       /\ review[r].v.Body = <<>>
       /\ review[r].v.ReviewState = <<"LGTM">>
       /\ published[r][1].Body = <<BannerHeader, BannerDisclaimer>>

(***************************************************************************)
(* The response normalizer                                                 *)
(***************************************************************************)
\* Both normalizer runs of the text are over.
NormRunsDone == norm # NotRun /\ fencedNorm # NotRun

\* The text is a JSON object that json.Unmarshal turns into a review.
DirectlyDecodes(t) ==
    /\ Len(t) >= 2
    /\ t[1] = LBrace
    /\ \E u \in {Unmarshal(t, ZeroReview)} : u.err = ""

\* The first key of the object is written "body" (in any letter case) and
\* the colon follows it at once.
BodyKeyFirst(t) ==
    \E k \in 2..Len(t) - 1 :
       /\ \A i \in 2..k - 1 : t[i].k = "w"
       /\ t[k].k = "s"
       /\ Lower(t[k].v) = "body"
       /\ t[k + 1] = Colon

\* The fenced text yields the review that the text itself yields.
SameVerdict ==
    /\ norm.err = ""
    /\ fencedNorm.err = ""
    /\ ~fencedNorm.isNil
    /\ fencedNorm.v.Body = norm.v.Body
    /\ fencedNorm.v.Comments = norm.v.Comments
    /\ fencedNorm.v.ReviewState = norm.v.ReviewState

\* C10 as stated: every JSON object text that the direct decode turns into a
\* review yields the same review when it is put in a json fence.
C10_RoundTripAnyObject ==
    (NormRunsDone /\ DirectlyDecodes(raw)) => SameVerdict

\* C10: a JSON object text that the direct decode turns into a review, and
\* whose first key is "body" (any letter case) with the colon right after it,
\* yields through the extraction of llmRespCleanup the same body, comments
\* and event when it is put in a json fence.
C10_RoundTripBodyFirst ==
    (NormRunsDone /\ DirectlyDecodes(raw) /\ BodyKeyFirst(raw)) => SameVerdict

\* An object with the body first, a tag and an inline comment came back from
\* the fence as it was decoded directly.
C10_Witness ==
    /\ NormRunsDone
    /\ DirectlyDecodes(raw)
    /\ BodyKeyFirst(raw)
    /\ norm.v.Body = <<"ok">>
    /\ norm.v.ReviewState = <<"APPROVED">>
    /\ Len(norm.v.Comments) = 1
    /\ norm.v.Comments[1].CommentPositionNew = 7
    /\ SameVerdict

\* C11: a completion with no object anchored at an opening brace that is
\* followed, after optional whitespace, by the key "body" and a colon (prose,
\* {}, null, an object without a body key) fails normalization with the
\* extraction error and yields no verdict.
C11_NoAnchorFails ==
    (norm # NotRun /\ ~\E j \in 1..Len(raw) : AnchoredAt(raw, j))
    => /\ norm.isNil
       /\ norm.err = "failed to extract json from LLM response"

\* C12: normalization returns either a verdict and no error, or an error and
\* no verdict; a failed run returns nothing of what the direct decode or the
\* decode of the extracted span had filled in.
C12_VerdictOrError ==
    \A run \in {norm, fencedNorm, again} :
       run # NotRun =>
          /\ run.isNil <=> run.err # ""
          /\ run.isNil => run.v = ZeroReview

\* The direct decode filled in the body and then failed on the event; the
\* result is an error with no verdict and no body.
C12_Witness ==
    /\ norm # NotRun
    /\ \E u \in {Unmarshal(raw, ZeroReview)} :
          u.err = "type" /\ u.v.Body = <<"ok">>
    /\ norm.isNil
    /\ norm.err = "failed to unmarshal cleaned json"
    /\ norm.v = ZeroReview

C15_BadRequestsRefused ==
    \A r \in Reqs :
       (Handled(r) /\ ~IsEvent(r)) =>
          /\ pc[r] = "done"
          /\ resp[r].status = IF request[r].method # "POST" THEN 405 ELSE 400
          /\ trace[r] = <<>>
          /\ answers[r] = <<>>
          /\ payload[r] = ZeroPayload

\* A POST with a body that is not JSON was answered 400 with nothing done.
C15_Witness ==
    \E r \in Reqs :
       /\ request[r].method = "POST"
       /\ request[r].body = "malformed"
       /\ resp[r] = [status |-> 400, body |-> "Bad request"]
       /\ trace[r] = <<>>

\* C16 as stated: every POST whose body decodes as a webhook event ends with
\* the answer 200 and a plain-text acknowledgement in the body.
C16_AlwaysAcknowledged ==
    \A r \in Reqs :
       (pc[r] = "done" /\ IsEvent(r)) =>
          (resp[r].status = 200 /\ resp[r].body # "")

\* C16: a POST whose body decodes as a webhook event ends in one of three
\* ways: 200 with an empty body when the filter rejects it, 200 with the
\* line "Successfully processed PR" when the review was published, and 500
\* with "Internal server error" when a stage after the filter failed.
C16_EventResponses ==
    \A r \in Reqs :
       (pc[r] = "done" /\ IsEvent(r)) =>
          /\ Rejected(r) => resp[r] = [status |-> 200, body |-> ""]
          /\ (Accepted(r) /\ ~StageFailed(r)) =>
                resp[r] = [status |-> 200, body |-> "Successfully processed PR"]
          /\ (Accepted(r) /\ StageFailed(r)) =>
                resp[r] = [status |-> 500, body |-> "Internal server error"]
          /\ Rejected(r) \/ Accepted(r)

\* An "opened" event was answered 200 with no body at all.
C16_Witness ==
    \E r \in Reqs :
       /\ pc[r] = "done"
       /\ IsEvent(r)
       /\ request[r].ev.action = Some(<<"o", "p", "e", "n", "e", "d">>)
       /\ request[r].ev.requested_reviewers = None
       /\ resp[r] = [status |-> 200, body |-> ""]

\* C19: when the completion text decodes directly as a review, the result is
\* that decoding and the extraction plays no part, also for a text from
\* which the extraction would have produced an error.
C19_DirectDecodeWins ==
    norm # NotRun =>
       \E u \in {Unmarshal(raw, ZeroReview)} :
          u.err = "" => (~norm.isNil /\ norm.err = "" /\ norm.v = u.v)

\* An object with the event before the body gave its verdict, and the
\* extraction applied to it finds nothing.
C19_Witness ==
    /\ norm # NotRun
    /\ raw = <<LBrace, S("event"), Colon, S("APPROVED"), Comma, S("body"), Colon,
               S("ok"), RBrace>>
    /\ norm.v = [Body |-> <<"ok">>, Comments |-> <<>>, ReviewState |-> <<"APPROVED">>]
    /\ \E c \in {llmRespCleanup(raw)} : c.isNil

\* What C20 expects of the run on text t with result res.
ExtractionAsClaimed(t, res) ==
    LET Anchor(j) ==
            /\ t[j] = LBrace
            /\ \E k \in j + 1..Len(t) - 1 :
                  /\ \A i \in j + 1..k - 1 : t[i].k = "w"
                  /\ t[k].k = "s" /\ Lower(t[k].v) = "body"
                  /\ t[k + 1] = Colon
        anchors == {j \in 1..Len(t) : Anchor(j)}
        braces == {e \in 1..Len(t) : t[e] = RBrace}
    IN  IF anchors = {} \/ braces = {}
        THEN res.isNil /\ res.err = "failed to extract json from LLM response"
        ELSE \E j \in anchors, e \in braces :
                /\ \A m \in anchors : j <= m
                /\ \A m \in braces : m <= e
                /\ \E u \in {Unmarshal(SubSeq(t, j, e), ZeroReview)} :
                      IF u.err # ""
                      THEN /\ res.isNil
                           /\ res.err = "failed to unmarshal cleaned json"
                      ELSE res = SomeReview(u.v)

\* C20: when the direct decode fails, the span handed to the decoder runs
\* from the first opening brace that is followed, after optional whitespace,
\* by "body" and a colon, to the last closing brace of the text; a span that
\* is not a review in JSON (prose with a brace after the object, a nested
\* comment object as the first anchor) gives the parse error and no verdict.
C20_GreedySpan ==
    /\ (norm # NotRun /\ \E u \in {Unmarshal(raw, ZeroReview)} : u.err # "")
       => ExtractionAsClaimed(raw, norm)
    /\ (fencedNorm # NotRun
        /\ \E u \in {Unmarshal(FenceWrap(raw), ZeroReview)} : u.err # "")
       => \E t \in {FenceWrap(raw)} : ExtractionAsClaimed(t, fencedNorm)

\* A review followed by prose with a closing brace gave the parse error.
C20_Witness ==
    /\ norm # NotRun
    /\ raw = TrailingProseText
    /\ norm.isNil
    /\ norm.err = "failed to unmarshal cleaned json"

(***************************************************************************)
(* Requests handled at the same time                                       *)
(***************************************************************************)
\* What a request's own event and the answers to its own calls determine.
OwnOutcome(r) ==
    \E pl \in {UnmarshalPayload(request[r].ev)} :
       LET accept ==
               /\ isReviewRequested(pl)
               /\ \/ isOurUserRequested(pl, config.GiteaUsername)
                  \/ config.GiteaUsername = Wildcard
           allOk == \A i \in DOMAIN answers[r] : AnswerOk(i, answers[r][i])
           calls ==
               IF ~IsEvent(r) \/ ~accept \/ request[r].ev.url = BadURL THEN 0
               ELSE IF allOk /\ Len(answers[r]) < 4 THEN Len(answers[r]) + 1
               ELSE Len(answers[r])
       IN  /\ OutboundCalls(trace[r]) = SubSeq(CallOrder, 1, calls)
           /\ resp[r] =
                 IF request[r].method # "POST"
                 THEN [status |-> 405, body |-> "Method not allowed"]
                 ELSE IF ~IsEvent(r)
                 THEN [status |-> 400, body |-> "Bad request"]
                 ELSE IF ~accept THEN [status |-> 200, body |-> ""]
                 ELSE IF request[r].ev.url = BadURL \/ ~allOk
                 THEN [status |-> 500, body |-> "Internal server error"]
                 ELSE IF Len(answers[r]) = 4
                 THEN [status |-> 200, body |-> "Successfully processed PR"]
                 ELSE [status |-> 0, body |-> ""]

\* C17: when two requests are handled at the same time, in every interleaving
\* of their steps, the outbound calls and the response of each are what its
\* own event and the answers to its own calls determine under the
\* configuration, and no step writes the configuration.
C17_NoInterference ==
    /\ [](\A r \in Reqs : Handled(r) => OwnOutcome(r))
    /\ [][config' = config]_vars

\* Two different events are in the pipeline at the same time, one waiting
\* for the LLM and the other for the host to take the review.
C17_Witness ==
    /\ pc[1] = "llm"
    /\ pc[2] = "publish"
    /\ request[1] # request[2]
    /\ config.GiteaUsername = Wildcard

(***************************************************************************)
(* The request to the LLM                                                  *)
(***************************************************************************)
\* C18: the schema of every LLM request declares the fields body, comments
\* and event, and for each element of comments the four fields body,
\* new_position, old_position and path.
C18_SchemaDeclaresCommentFields ==
    \A r \in Reqs :
       /\ "POST llm" \in Range(trace[r]) => llmReq[r] # None
       /\ llmReq[r] # None =>
             /\ DOMAIN llmReq[r][1].Body.Format.Schema = {"body", "comments", "event"}
             /\ \A i \in DOMAIN llmReq[r][1].Body.Format.Schema.comments :
                   DOMAIN llmReq[r][1].Body.Format.Schema.comments[i] =
                      {"body", "new_position", "old_position", "path"}

(***************************************************************************)
(* The two fetches                                                         *)
(***************************************************************************)
\* C21: the metadata fetch comes before the diff fetch; when the metadata
\* fetch fails (a status other than 200, a transport error, a body that does
\* not decode) the diff is not fetched, and when either fetch fails neither
\* the LLM call nor the publish call is made for that request.
C21_FetchesGateTheRest ==
    \A r \in Reqs :
       \E calls \in {OutboundCalls(trace[r])} :
          /\ IsPrefix(calls, CallOrder)
          /\ Len(answers[r]) <= Len(calls)
          /\ (Len(answers[r]) >= 1 /\ ~AnswerOk(1, answers[r][1]))
             => calls = <<"GET meta">>
          /\ (Len(answers[r]) >= 2 /\ ~AnswerOk(2, answers[r][2]))
             => calls = <<"GET meta", "GET diff">>

\* A request whose metadata answer was good and whose diff body could not be
\* read: it made the two GETs, no other call, and was answered 500.
C21_Witness ==
    \E r \in Reqs :
       /\ pc[r] = "done"
       /\ Len(answers[r]) = 2
       /\ AnswerOk(1, answers[r][1])
       /\ ~answers[r][2].neterr
       /\ answers[r][2].status = 200
       /\ answers[r][2].body = "readerr"
       /\ OutboundCalls(trace[r]) = <<"GET meta", "GET diff">>
       /\ resp[r].status = 500


(***************************************************************************)
(* What publishing sends                                                   *)
(***************************************************************************)
\* C22: the review sent to the host has the comments of the normalized
\* verdict, in their order and with their bodies, paths and both positions,
\* and its decision string, all unchanged: a comment without a position is
\* sent, a decision the host does not know is sent as it is.
C22_PublishKeepsCommentsAndEvent ==
    \A r \in Reqs :
       published[r] # None =>
          /\ ~review[r].isNil
          /\ published[r][1].Comments = review[r].v.Comments
          /\ published[r][1].ReviewState = review[r].v.ReviewState
          /\ Len(answers[r]) >= 3
          /\ answers[r][3].choices[1] = TwoSidedCompletion =>
                /\ published[r][1].Comments =
                      <<[Body |-> <<"old">>, CommentPositionNew |-> 7,
                         CommentPositionOld |-> 3, Path |-> <<"a.go">>],
                        [Body |-> <<"none">>, CommentPositionNew |-> 0,
                         CommentPositionOld |-> 0, Path |-> <<"b.go">>]>>
                /\ published[r][1].ReviewState = <<"approve">>
          /\ answers[r][3].choices[1] = EmptyBodyCompletion =>
                /\ published[r][1].Comments = <<>>
                /\ published[r][1].ReviewState = <<"LGTM">>

\* The two-comment completion was published and the host accepted it.
C22_Witness ==
    \E r \in Reqs :
       /\ pc[r] = "done"
       /\ resp[r] = Processed
       /\ answers[r][3].choices[1] = TwoSidedCompletion
       /\ Len(published[r][1].Comments) = 2
       /\ published[r][1].Body # review[r].v.Body


(***************************************************************************)
(* The configuration                                                       *)
(***************************************************************************)
\* C23: the temperature of every LLM request is the temperature of the
\* loaded configuration: the value of the file when it sets one, the default
\* otherwise.
C23_TemperatureFromConfig ==
    \A r \in Reqs :
       llmReq[r] # None =>
          /\ llmReq[r][1].Body.Temperature = config.Temperature
          /\ llmReq[r][1].Body.Temperature =
                IF configFile.temperature # None THEN configFile.temperature[1]
                ELSE DefaultTemperature

\* C24: after a load without error, the bearer credential of the LLM request
\* is the llm_token of the file when the file sets it, and the LLM_TOKEN of
\* the environment otherwise.
C24_TokenFromLLMToken ==
    \A r \in Reqs :
       llmReq[r] # None =>
          llmReq[r][1].Authorization =
             <<"Bearer ">> \o (IF configFile.llm_token # None
                               THEN configFile.llm_token[1]
                               ELSE environ.LLM_TOKEN)

\* C25: once the configuration has loaded without error, the host token, the
\* LLM token and the LLM endpoint are non-empty, the process goes on serving,
\* and no handler ends in log.Fatal.
C25_NoFatalAfterLoad ==
    proc \notin {"starting", "panicked"} =>
       /\ config.GiteaToken # <<>>
       /\ config.LLMToken # <<>>
       /\ config.LLMEndpoint # <<>>
       /\ ~MissingConfiguration
       /\ proc = "serving"
       /\ \A r \in Reqs : pc[r] # "killed"

\* A file without any of the three secrets loaded from the environment, and
\* an accepted request went past the check to its first outbound call.
C25_Witness ==
    \E r \in Reqs :
       /\ configFile.gitea_token = None
       /\ configFile.llm_endpoint = None
       /\ configFile.llm_token = None
       /\ proc = "serving"
       /\ Accepted(r)
       /\ pc[r] = "meta"


(***************************************************************************)
(* Termination                                                             *)
(***************************************************************************)
\* C26: when every outbound call returns, every call of handleWebhook ends
\* with exactly one response status written, one of 405, 400, 200 and 500.
C26_EveryCallAnswered ==
    /\ \A r \in Reqs :
          (pc[r] # "idle")
             ~> (pc[r] = "done" /\ resp[r].status \in {405, 400, 200, 500})
    /\ [][\A r \in Reqs : resp[r] # NoResponse => resp'[r] = resp[r]]_vars

\* C26 for the calls whose read of the request body returns (with the body
\* or with an error): they end with exactly one response status written, one
\* of 405, 400, 200 and 500, and a status once written is not written again.
C26_AnsweredOnceBodyIsRead ==
    /\ \A r \in Reqs :
          (pc[r] \notin {"idle", "body"})
             ~> (pc[r] = "done" /\ resp[r].status \in {405, 400, 200, 500})
    /\ [](\A r \in Reqs :
             /\ (pc[r] = "done") = (resp[r] # NoResponse)
             /\ resp[r] # NoResponse => resp[r].status \in {405, 400, 200, 500})
    /\ [][\A r \in Reqs : resp[r] # NoResponse => resp'[r] = resp[r]]_vars

\* Two requests went through all four outbound calls and both were answered,
\* one with 200 and one with 500.
C26_Witness ==
    /\ \A r \in Reqs : pc[r] = "done" /\ Len(answers[r]) = 4
    /\ resp[1].status = 200
    /\ resp[2].status = 500

====
